---- MODULE Spec2Model ----
(***************************************************************************)
(* Model of problib: the iterative FFT and the polynomial algebra built on *)
(* it (src/problib/convolve.py) and the discrete random variable           *)
(* (src/problib/rv.py).                                                    *)
(*                                                                         *)
(* Numbers.  Python floats and complex numbers are modelled exactly:       *)
(*  - a real coefficient is an integer;                                    *)
(*  - a complex number is an element of the cyclotomic ring Z[zeta], zeta  *)
(*    a primitive RingOrd-th root of unity, written as the sequence of its *)
(*    Half integer coordinates on 1, zeta, .., zeta^(Half-1), with         *)
(*    zeta^Half = -1.  Every twiddle factor of a transform of length at    *)
(*    most RingOrd is a power of zeta, so the butterflies are exact;       *)
(*  - a probability is an integer number of units, One units making 1.     *)
(* Equality in the model therefore stands for equality up to rounding in   *)
(* the program.                                                            *)
(*                                                                         *)
(* A call returns a record [err, val]: err = "none" and the returned value,*)
(* or the exception the call raises.                                       *)
(***************************************************************************)
EXTENDS Integers, Sequences, FiniteSets, TLC

VARIABLES op, arg, out,            \* the last call of convolve.py: name, arguments, result
          bra, brA, brc, bri, brpc, \* bit_rev_copy, one loop iteration at a time
          rv, live, rop, rarg, rout \* a RandomVariable instance and the last call on it

vars == <<op, arg, out, bra, brA, brc, bri, brpc, rv, live, rop, rarg, rout>>
convVars == <<op, arg, out>>
brVars == <<bra, brA, brc, bri, brpc>>
rvVars == <<rv, live, rop, rarg, rout>>

----------------------------------------------------------------------------
(* Bounds of the explored inputs *)

MaxLen == 2      \* longest coefficient list handed to poly_mult / poly_exp
MaxCoef == 2     \* coefficients range over 0..MaxCoef
MaxK == 3        \* largest exponent handed to poly_exp
MinK == 0 - 1    \* smallest exponent handed to poly_exp
MaxLgN == 2      \* transforms of length 2^0 .. 2^MaxLgN
MaxLgB == 3      \* bit_rev_copy on lists of length 2^0 .. 2^MaxLgB
MaxSupp == 2     \* support and weight lists of length 0..MaxSupp
MaxX == 1        \* support values and query points around -MaxX..MaxX
Resolution == 2  \* probability units per EPSILON

----------------------------------------------------------------------------
(* Results of calls *)

Ok(v) == [err |-> "none", val |-> v]
Raise(e) == [err |-> e, val |-> <<>>]

(* Integer helpers *)

RECURSIVE Pow2(_)
Pow2(e) == IF e <= 0 THEN 1 ELSE 2 * Pow2(e - 1)

\* int.bit_length() of a non-negative integer
RECURSIVE bit_length(_)
bit_length(n) == IF n <= 0 THEN 0 ELSE 1 + bit_length(n \div 2)

\* math.ceil(math.log2(n)) for n >= 1
RECURSIVE CeilLog2(_)
CeilLog2(n) == IF n <= 1 THEN 0 ELSE 1 + CeilLog2((n + 1) \div 2)

MaxOf(x, y) == IF x >= y THEN x ELSE y

\* x & y and x ^ y on non-negative integers
RECURSIVE BitAnd(_, _)
BitAnd(x, y) ==
    IF x = 0 \/ y = 0 THEN 0
    ELSE ((x % 2) * (y % 2)) + 2 * BitAnd(x \div 2, y \div 2)

RECURSIVE BitXor(_, _)
BitXor(x, y) ==
    IF x = 0 THEN y
    ELSE IF y = 0 THEN x
    ELSE ((x + y) % 2) + 2 * BitXor(x \div 2, y \div 2)

\* a function on 1..n written out as a tuple
Listed(f) == f \o <<>>

Zeros(n) == Listed([i \in 1..n |-> 0])

RECURSIVE SumUpTo(_, _)
SumUpTo(f, n) == IF n = 0 THEN 0 ELSE f[n] + SumUpTo(f, n - 1)

\* sum(l) of a list of integers
SumSeq(l) == SumUpTo(l, Len(l))

----------------------------------------------------------------------------
(* Complex numbers: the ring Z[zeta] *)

\* the longest transform poly_exp performs on the explored inputs, doubled
\* so that products of two of its results can still be formed
RingOrd ==
    MaxOf(MaxOf(4, Pow2(MaxLgN)),
          2 * Pow2(CeilLog2(MaxLen)) * Pow2(bit_length(MaxK)))
Half == RingOrd \div 2

\* the complex number re + im*j
Cplx(re, im) ==
    Listed([i \in 1..Half |->
                IF i = 1 THEN re ELSE IF i = (Half \div 2) + 1 THEN im ELSE 0])
\* zeta^e, e any integer
Zeta(e) ==
    LET r == e % RingOrd
    IN  Listed([i \in 1..Half |-> IF i = (r % Half) + 1
                                   THEN (IF r >= Half THEN 0 - 1 ELSE 1) ELSE 0])

CAdd(x, y) == Listed([i \in 1..Half |-> x[i] + y[i]])
CSub(x, y) == Listed([i \in 1..Half |-> x[i] - y[i]])
\* coordinate k of x*y: the terms x[i]*y[j] with zeta^(i-1) * zeta^(j-1) equal
\* to zeta^(k-1), or to -zeta^(k-1) after wrapping past zeta^Half = -1
RECURSIVE CMulSum(_, _, _, _)
CMulSum(x, y, k, i) ==
    IF i = 0 THEN 0
    ELSE (IF i <= k THEN x[i] * y[k - i + 1] ELSE 0 - (x[i] * y[k - i + 1 + Half]))
         + CMulSum(x, y, k, i - 1)
CMul(x, y) == Listed([k \in 1..Half |-> CMulSum(x, y, k, Half)])
\* x / n for a complex x and a positive integer n; every quotient the
\* explored calls form is exact (n divides each coordinate)
CDivInt(x, n) == Listed([i \in 1..Half |-> x[i] \div n])
\* x.real, for a complex number whose other coordinates vanish
CReal(x) == x[1]
\* a real number used as a complex one
FromReal(r) == Cplx(r, 0)

----------------------------------------------------------------------------
(* convolve.py: bit reversal *)

ShiftError == "ValueError: negative shift count"

\* the while loop of rev_increment: clear set bits from the top down
RECURSIVE RevIncLoop(_, _)
RevIncLoop(c, i) ==
    IF BitAnd(c, i) > 0 THEN RevIncLoop(BitXor(c, i), i \div 2)
    ELSE BitXor(c, i)

\* rev_increment with the top bit taken one place too high, 1 << m
rev_increment_high_bit(c, m) ==
    IF m < 0 THEN Raise(ShiftError)
    ELSE Ok(RevIncLoop(c, Pow2(m)))

\* rev_increment(c, m); 1 << (m - 1) raises for m < 1
rev_increment(c, m) ==
    IF m - 1 < 0 THEN Raise(ShiftError)
    ELSE Ok(RevIncLoop(c, Pow2(m - 1)))

\* one iteration of the loop of bit_rev_copy, on the 0-based position
\* i of a: A[c] = a[i], then c = rev_increment(c, m)
BitRevStep(a, A, c, i, m) ==
    LET r == rev_increment(c, m)
    IN  [A |-> [A EXCEPT ![c + 1] = a[i + 1]], err |-> r.err, c |-> r.val]

RECURSIVE BitRevLoop(_, _, _, _, _)
BitRevLoop(a, A, c, i, m) ==
    IF i >= Len(a) THEN Ok(A)
    ELSE LET st == BitRevStep(a, A, c, i, m)
         IN  IF st.err # "none" THEN Raise(st.err)
             ELSE BitRevLoop(a, st.A, st.c, i + 1, m)

\* bit_rev_copy(a): A starts as [0]*n, the counter at 0
bit_rev_copy(a) == BitRevLoop(a, Zeros(Len(a)), 0, 0, bit_length(Len(a)) - 1)

----------------------------------------------------------------------------
(* convolve.py: the transform *)

\* wm = cmath.exp((-1 if inv else 1)*2*pi*1j/m), m a power of two <= RingOrd
StageRoot(m, inv) == Zeta((IF inv THEN 0 - 1 ELSE 1) * (RingOrd \div m))

\* lines 31-34, for the block at k and the pair j (0-based)
Butterfly(A, k, j, hm, w) ==
    LET t == CMul(w, A[k + j + hm + 1])
        u == A[k + j + 1]
    IN  [A EXCEPT ![k + j + 1] = CAdd(u, t), ![k + j + hm + 1] = CSub(u, t)]

RECURSIVE PairLoop(_, _, _, _, _, _)
PairLoop(A, k, j, hm, w, wm) ==
    IF j >= hm THEN A
    ELSE PairLoop(Butterfly(A, k, j, hm, w), k, j + 1, hm, CMul(w, wm), wm)

RECURSIVE BlockLoop(_, _, _, _)
BlockLoop(A, k, m, wm) ==
    IF k >= Len(A) THEN A
    ELSE BlockLoop(PairLoop(A, k, 0, m \div 2, Cplx(1, 0), wm), k + m, m, wm)

RECURSIVE StageLoop(_, _, _)
StageLoop(A, s, inv) ==
    IF s >= bit_length(Len(A)) THEN A
    ELSE StageLoop(BlockLoop(A, 0, Pow2(s), StageRoot(Pow2(s), inv)), s + 1, inv)

\* iter_fft(a, inv)
iter_fft(a, inv) ==
    LET B == bit_rev_copy(a)
    IN  IF B.err # "none" THEN B ELSE Ok(StageLoop(B.val, 1, inv))

\* inv_iter_fft(a)
inv_iter_fft(a) ==
    LET T == iter_fft(a, TRUE)
    IN  IF T.err # "none" THEN T
        ELSE Ok(Listed([i \in 1..Len(a) |-> CDivInt(T.val[i], Len(a))]))

----------------------------------------------------------------------------
(* convolve.py: polynomials *)

\* mirror(a), for a non-empty list
mirror(a) == a \o Zeros(Pow2(CeilLog2(Len(a))) - Len(a))

\* the list poly_mult pads x to, n = max(len(a), len(b))
Padded(x, n) == mirror(x \o Zeros(n - Len(x)) \o Zeros(n))

\* poly_mult(a, b), for non-empty lists of reals
poly_mult(a, b) ==
    LET n == MaxOf(Len(a), Len(b))
        ap == Padded(a, n)
        bp == Padded(b, n)
        fa == iter_fft(Listed([i \in 1..Len(ap) |-> FromReal(ap[i])]), FALSE)
        fb == iter_fft(Listed([i \in 1..Len(bp) |-> FromReal(bp[i])]), FALSE)
    IN  IF fa.err # "none" THEN fa
        ELSE IF fb.err # "none" THEN fb
        ELSE LET prod == Listed([i \in 1..Len(ap) |-> CMul(fa.val[i], fb.val[i])])
                 r == inv_iter_fft(prod)
             IN  IF r.err # "none" THEN r
                 ELSE Ok(Listed([i \in 1..Len(r.val) |-> CReal(r.val[i])]))

\* the while loop of poly_exp
RECURSIVE PolyExpLoop(_, _, _)
PolyExpLoop(rtn, p, k) ==
    IF ~(k > 0) THEN Ok(rtn)
    ELSE LET r1 == IF k % 2 = 1 THEN poly_mult(rtn, p) ELSE Ok(rtn)
             p2 == poly_mult(p, p)
         IN  IF r1.err # "none" THEN r1
             ELSE IF p2.err # "none" THEN p2
             ELSE PolyExpLoop(r1.val, p2.val, k \div 2)

\* poly_exp(p, k)
poly_exp(p, k) == PolyExpLoop(<<1>>, p, k)

----------------------------------------------------------------------------
(* Calls of convolve.py: a call records its arguments and its result; *)
(* Return forgets them.                                                *)

\* the inputs explored
Polys == UNION {[1..n -> 0..MaxCoef] : n \in 1..MaxLen}
CVals == {Cplx(1, 0), Cplx(0, 1), Cplx(2, 0 - 1)}
CSeqs == UNION {[1..Pow2(e) -> CVals] : e \in 0..MaxLgN}
BrInputs ==
    {[i \in 1..Pow2(e) |-> base + stride * (i - 1)] :
        e \in 0..MaxLgB, base \in 0..MaxCoef, stride \in 0..MaxCoef}

NoArg == [a |-> <<>>, b |-> <<>>, k |-> 0]

ConvInit == op = "idle" /\ arg = NoArg /\ out = Ok(<<>>)

\* inv_iter_fft(iter_fft(a))
RoundTrip(a) ==
    /\ op = "idle"
    /\ op' = "roundtrip"
    /\ arg' = [NoArg EXCEPT !.a = a]
    /\ out' = LET f == iter_fft(a, FALSE)
              IN  IF f.err # "none" THEN f ELSE inv_iter_fft(f.val)
    /\ UNCHANGED <<brVars, rvVars>>

PolyMult(a, b) ==
    /\ op = "idle"
    /\ op' = "poly_mult"
    /\ arg' = [NoArg EXCEPT !.a = a, !.b = b]
    /\ out' = poly_mult(a, b)
    /\ UNCHANGED <<brVars, rvVars>>

PolyExp(p, k) ==
    /\ op = "idle"
    /\ op' = "poly_exp"
    /\ arg' = [NoArg EXCEPT !.a = p, !.k = k]
    /\ out' = poly_exp(p, k)
    /\ UNCHANGED <<brVars, rvVars>>

Return ==
    /\ op # "idle"
    /\ op' = "idle" /\ arg' = NoArg /\ out' = Ok(<<>>)
    /\ UNCHANGED <<brVars, rvVars>>

----------------------------------------------------------------------------
(* bit_rev_copy, one iteration of its loop at a time *)

BrInit == bra = <<>> /\ brA = <<>> /\ brc = 0 /\ bri = 0 /\ brpc = "idle"

\* lines 13-15
BrcCall(a) ==
    /\ brpc = "idle"
    /\ bra' = a /\ brA' = Zeros(Len(a)) /\ brc' = 0 /\ bri' = 0
    /\ brpc' = "loop"
    /\ UNCHANGED <<convVars, rvVars>>

\* lines 16-18, one iteration
BrcIter ==
    /\ brpc = "loop" /\ bri < Len(bra)
    /\ LET st == BitRevStep(bra, brA, brc, bri, bit_length(Len(bra)) - 1)
       IN  /\ brA' = st.A
           /\ IF st.err # "none"
              THEN brpc' = st.err /\ UNCHANGED <<brc, bri>>
              ELSE brpc' = "loop" /\ brc' = st.c /\ bri' = bri + 1
    /\ UNCHANGED <<bra, convVars, rvVars>>

\* line 19
BrcReturn ==
    /\ brpc = "loop" /\ bri >= Len(bra)
    /\ brpc' = "done"
    /\ UNCHANGED <<bra, brA, brc, bri, convVars, rvVars>>

BrcForget ==
    /\ brpc \notin {"idle", "loop"}
    /\ bra' = <<>> /\ brA' = <<>> /\ brc' = 0 /\ bri' = 0 /\ brpc' = "idle"
    /\ UNCHANGED <<convVars, rvVars>>

----------------------------------------------------------------------------
(* rv.py: normalization and verification *)

\* EPSILON = 10**-3, in probability units; One units make probability 1
EPSILON == Resolution
One == 1000 * EPSILON
HalfOne == One \div 2

Abs(x) == IF x < 0 THEN 0 - x ELSE x

\* insert x into the ascending list l, after the entries equal to it
RECURSIVE InsertSorted(_, _)
InsertSorted(x, l) ==
    IF l = <<>> THEN <<x>>
    ELSE IF x < Head(l) THEN <<x>> \o l
    ELSE <<Head(l)>> \o InsertSorted(x, Tail(l))

\* sorted(l) of a list of numbers
RECURSIVE sorted(_)
sorted(l) ==
    IF l = <<>> THEN <<>>
    ELSE InsertSorted(l[Len(l)], sorted(SubSeq(l, 1, Len(l) - 1)))

nonneg(l) == \A i \in 1..Len(l) : l[i] >= 0

diff(x, y) == Abs(x - y) < EPSILON

\* pmf(l): whether l can be read as a pmf
pmf(l) == nonneg(l) /\ diff(SumSeq(l), One)

\* cmf(l): whether l can be read as a cmf (l is never empty here)
cmf(l) == nonneg(l) /\ l = sorted(l) /\ diff(l[Len(l)], One)

RECURSIVE PrefixLoop(_, _, _)
PrefixLoop(l, prefix, i) ==
    IF i >= Len(l) THEN prefix
    ELSE PrefixLoop(l, [prefix EXCEPT ![i + 2] = prefix[i + 1] + l[i + 1]], i + 1)

\* prefix_sum(l)
prefix_sum(l) == PrefixLoop(l, Zeros(Len(l) + 1), 0)

----------------------------------------------------------------------------
(* rv.py: RandomVariable *)

SupportError == "AssertionError: support set must be sorted"
PmfError == "AssertionError: not a valid pmf"
CmfError == "AssertionError: not a valid cmf"
NormError == "TypeError: 'bool' object is not callable"
IndexError == "IndexError: list index out of range"
ArgsError == "TypeError: __init__() missing 2 required positional arguments"

SeqRange(l) == {l[i] : i \in 1..Len(l)}

\* {x: i for i, x in enumerate(X)}: the last position of each value, 0-based
IndexMap(X) ==
    [x \in SeqRange(X) |->
        CHOOSE i \in 0..(Len(X) - 1) :
            X[i + 1] = x /\ \A j \in 0..(Len(X) - 1) : X[j + 1] = x => j <= i]

\* RandomVariable(X, p, norm=norm).  The parameter norm hides the function
\* norm, so norm(self.p) calls a bool when the flag is set.
RandomVariable(X, p, norm) ==
    IF norm THEN Raise(NormError)
    ELSE LET F == prefix_sum(p)
         IN  IF ~(sorted(X) = X) THEN Raise(SupportError)
             ELSE IF ~pmf(p) THEN Raise(PmfError)
             ELSE IF ~cmf(F) THEN Raise(CmfError)
             ELSE Ok([X |-> X, p |-> p, F |-> F, D |-> IndexMap(X)])

\* l[i] for a 0-based i >= 0
Item(l, i) == IF i < Len(l) THEN Ok(l[i + 1]) ELSE Raise(IndexError)

\* self.pmf(u)
RV_pmf(self, u) ==
    IF u \in DOMAIN self.D THEN Item(self.p, self.D[u]) ELSE Ok(0)

\* bisect.bisect(X, u): the binary search of bisect_right
RECURSIVE BisectLoop(_, _, _, _)
BisectLoop(X, u, lo, hi) ==
    IF ~(lo < hi) THEN lo
    ELSE LET mid == (lo + hi) \div 2
         IN  IF u < X[mid + 1] THEN BisectLoop(X, u, lo, mid)
             ELSE BisectLoop(X, u, mid + 1, hi)

bisect(X, u) == BisectLoop(X, u, 0, Len(X))

\* self.cmf(u)
RV_cmf(self, u) ==
    IF u \in DOMAIN self.D THEN Item(self.F, self.D[u] + 1)
    ELSE Item(self.F, bisect(self.X, u))

\* the functions handed to transform, map and E
Funs == {"ident", "square", "negate", "zero", "point", "half"}
Apply(f, x) ==
    CASE f = "ident" -> x
      [] f = "square" -> x * x
      [] f = "negate" -> 0 - x
      [] f = "zero" -> 0
      [] f = "point" -> (IF x = 0 THEN One ELSE 0)
      [] f = "half" -> HalfOne

\* the loop of transform over the support, from 0-based position i;
\* freq is the dict built so far
RECURSIVE TransformLoop(_, _, _, _)
TransformLoop(self, f, i, freq) ==
    IF i >= Len(self.X) THEN Ok(freq)
    ELSE LET x == self.X[i + 1]
             y == Apply(f, x)
             w == RV_pmf(self, x)
             old == IF y \in DOMAIN freq THEN freq[y] ELSE 0
         IN  IF w.err # "none" THEN w
             ELSE TransformLoop(self, f, i + 1,
                     [z \in (DOMAIN freq) \cup {y} |->
                         IF z = y THEN old + w.val ELSE freq[z]])

\* the keys of a dict in ascending order
RECURSIVE SortedKeys(_)
SortedKeys(S) ==
    IF S = {} THEN <<>>
    ELSE LET lo == CHOOSE x \in S : \A y \in S : x <= y
         IN  <<lo>> \o SortedKeys(S \ {lo})

\* self.transform(f)
RV_transform(self, f) ==
    LET fr == TransformLoop(self, f, 0, <<>>)
    IN  IF fr.err # "none" THEN fr
        ELSE IF DOMAIN fr.val = {} THEN Raise(ArgsError)
        ELSE LET keys == SortedKeys(DOMAIN fr.val)
             IN  RandomVariable(keys,
                     Listed([i \in 1..Len(keys) |-> fr.val[keys[i]]]), FALSE)

\* map with f applied to the probabilities instead of the support values
RV_map_over_p(self, f) ==
    RandomVariable(self.X, Listed([i \in 1..Len(self.p) |-> Apply(f, self.p[i])]), FALSE)

\* self.map(f): the instance itself is handed over as the support
RV_map(self, f) ==
    RandomVariable(self.X, Listed([i \in 1..Len(self.X) |-> Apply(f, self.X[i])]), FALSE)

\* self.E(f), from 0-based position i
RECURSIVE ELoop(_, _, _, _)
ELoop(self, f, i, acc) ==
    IF i >= Len(self.X) THEN Ok(acc)
    ELSE LET w == Item(self.p, i)
         IN  IF w.err # "none" THEN w
             ELSE ELoop(self, f, i + 1, acc + Apply(f, self.X[i + 1]) * w.val)

RV_E(self, f) == ELoop(self, f, 0, 0)

----------------------------------------------------------------------------
(* Calls on a RandomVariable.  A constructor call or a method call records *)
(* its arguments and result; Keep makes a returned instance the receiver   *)
(* of the calls that follow, RvReturn drops the result, Drop the receiver. *)

SuppLists == UNION {[1..n -> (0 - MaxX)..MaxX] : n \in 0..MaxSupp}
PVals == {0 - 1, 0, HalfOne, HalfOne + 1, One}
WeightLists == UNION {[1..n -> PVals] : n \in 0..MaxSupp}
Points == (0 - MaxX - 1)..(MaxX + 1)

NoRV == [X |-> <<>>, p |-> <<>>, F |-> <<>>, D |-> <<>>]
NoRArg == [X |-> <<>>, p |-> <<>>, norm |-> FALSE, u |-> 0, f |-> "none"]

RvInit == rv = NoRV /\ live = FALSE /\ rop = "idle" /\ rarg = NoRArg /\ rout = Ok(<<>>)

\* RandomVariable(X, p) and RandomVariable(X, p, norm=True), on any lists
Construct ==
    /\ rop = "idle" /\ ~live
    /\ \E X \in SuppLists, p \in WeightLists, norm \in BOOLEAN :
          /\ rop' = "construct"
          /\ rarg' = [NoRArg EXCEPT !.X = X, !.p = p, !.norm = norm]
          /\ rout' = RandomVariable(X, p, norm)
    /\ UNCHANGED <<rv, live, convVars, brVars>>

Pmf(u) ==
    /\ rop = "idle" /\ live
    /\ rop' = "pmf" /\ rarg' = [NoRArg EXCEPT !.u = u]
    /\ rout' = RV_pmf(rv, u)
    /\ UNCHANGED <<rv, live, convVars, brVars>>

Cmf(u) ==
    /\ rop = "idle" /\ live
    /\ rop' = "cmf" /\ rarg' = [NoRArg EXCEPT !.u = u]
    /\ rout' = RV_cmf(rv, u)
    /\ UNCHANGED <<rv, live, convVars, brVars>>

\* (images outside the explored range of support values are left out, so
\* that kept results stay within it)
Transform(f) ==
    /\ rop = "idle" /\ live
    /\ \A i \in 1..Len(rv.X) : Apply(f, rv.X[i]) \in (0 - MaxX)..MaxX
    /\ rop' = "transform" /\ rarg' = [NoRArg EXCEPT !.f = f]
    /\ rout' = RV_transform(rv, f)
    /\ UNCHANGED <<rv, live, convVars, brVars>>

Map(f) ==
    /\ rop = "idle" /\ live
    /\ rop' = "map" /\ rarg' = [NoRArg EXCEPT !.f = f]
    /\ rout' = RV_map(rv, f)
    /\ UNCHANGED <<rv, live, convVars, brVars>>

Expect(f) ==
    /\ rop = "idle" /\ live
    /\ rop' = "E" /\ rarg' = [NoRArg EXCEPT !.f = f]
    /\ rout' = RV_E(rv, f)
    /\ UNCHANGED <<rv, live, convVars, brVars>>

Keep ==
    /\ rop \in {"construct", "transform", "map"} /\ rout.err = "none"
    /\ rv' = rout.val /\ live' = TRUE
    /\ rop' = "idle" /\ rarg' = NoRArg /\ rout' = Ok(<<>>)
    /\ UNCHANGED <<convVars, brVars>>

RvReturn ==
    /\ rop # "idle"
    /\ rop' = "idle" /\ rarg' = NoRArg /\ rout' = Ok(<<>>)
    /\ UNCHANGED <<rv, live, convVars, brVars>>

Drop ==
    /\ rop = "idle" /\ live
    /\ rv' = NoRV /\ live' = FALSE
    /\ UNCHANGED <<rop, rarg, rout, convVars, brVars>>

----------------------------------------------------------------------------
(* Specifications *)

Init == ConvInit /\ BrInit /\ RvInit

NextConv ==
    \/ \E a \in CSeqs : RoundTrip(a)
    \/ \E a \in Polys, b \in Polys : PolyMult(a, b)
    \/ \E p \in Polys, k \in MinK..MaxK : PolyExp(p, k)
    \/ Return

NextBitRev ==
    \/ \E a \in BrInputs : BrcCall(a)
    \/ BrcIter
    \/ BrcReturn
    \/ BrcForget

NextRV ==
    \/ Construct
    \/ \E u \in Points : Pmf(u)
    \/ \E u \in Points : Cmf(u)
    \/ \E f \in Funs : Transform(f)
    \/ \E f \in Funs : Map(f)
    \/ \E f \in Funs : Expect(f)
    \/ Keep
    \/ RvReturn
    \/ Drop

SpecConv == Init /\ [][NextConv]_vars
SpecBitRev == Init /\ [][NextBitRev]_vars
SpecRV == Init /\ [][NextRV]_vars

----------------------------------------------------------------------------
(* Reference definitions the claims are stated with *)

\* the direct O(n^2) convolution: Len(a) + Len(b) - 1 coefficients
DirectConv(a, b) ==
    [k \in 1..(Len(a) + Len(b) - 1) |->
        SumUpTo([i \in 1..Len(a) |->
                    IF k - i + 1 \in 1..Len(b) THEN a[i] * b[k - i + 1] ELSE 0],
                Len(a))]

\* the m-bit reversal of i
RECURSIVE Rev(_, _)
Rev(i, m) == IF m <= 0 THEN 0 ELSE (i % 2) * Pow2(m - 1) + Rev(i \div 2, m - 1)

StrictlyIncreasing(X) == \A i \in 1..(Len(X) - 1) : X[i] < X[i + 1]

\* an instance as the data model describes it
WellFormed(r) == Len(r.X) = Len(r.p) /\ StrictlyIncreasing(r.X)

\* P(X <= u): the mass of the support values up to u
MassUpTo(r, u) ==
    SumUpTo([i \in 1..Len(r.X) |->
                IF r.X[i] <= u /\ i \in DOMAIN r.p THEN r.p[i] ELSE 0], Len(r.X))

\* the mass f carries to the image y
MassOnto(r, f, y) ==
    SumUpTo([i \in 1..Len(r.X) |->
                IF Apply(f, r.X[i]) = y /\ i \in DOMAIN r.p THEN r.p[i] ELSE 0],
            Len(r.X))

Images(r, f) == {Apply(f, r.X[i]) : i \in 1..Len(r.X)}

----------------------------------------------------------------------------
(* Claims about convolve.py, under SpecConv *)

\* C1: multiply(a, b) returns the direct convolution of a and b, exactly
\* lenA + lenB - 1 coefficients with result[k] = sum of a[i]*b[j], i + j = k.
C1_MultiplyIsDirectConvolution ==
    op = "poly_mult" =>
        out.err = "none" /\ out.val = DirectConv(arg.a, arg.b)

\* What poly_mult returns instead: the padded length, with the convolution
\* in front and zeros behind it.
PolyMultIsPaddedConvolution ==
    op = "poly_mult" =>
        LET m == Len(arg.a) + Len(arg.b) - 1
            np == Pow2(CeilLog2(2 * MaxOf(Len(arg.a), Len(arg.b))))
        IN  /\ out.err = "none"
            /\ Len(out.val) = np
            /\ SubSeq(out.val, 1, m) = DirectConv(arg.a, arg.b)
            /\ \A i \in (m + 1)..np : out.val[i] = 0

\* C2: power(p, 0) = [1], power(p, 1) = p and
\* power(p, k1 + k2) = multiply(power(p, k1), power(p, k2)) for k1, k2 >= 0.
C2_PowerLaws ==
    (op = "poly_exp" /\ arg.k >= 0) =>
        /\ out.err = "none"
        /\ arg.k = 0 => out.val = <<1>>
        /\ arg.k = 1 => out.val = arg.a
        /\ \A k1 \in 0..arg.k :
             \A x \in {poly_exp(arg.a, k1)}, y \in {poly_exp(arg.a, arg.k - k1)} :
                out = poly_mult(x.val, y.val)

\* C3: inverseTransform(forwardTransform(a)) completes and returns a, for
\* every power-of-two length including 1.
C3_RoundTripIsIdentity ==
    op = "roundtrip" => out.err = "none" /\ out.val = arg.a

\* p^k by repeated direct convolution
RECURSIVE DirectPower(_, _)
DirectPower(p, k) == IF k <= 0 THEN <<1>> ELSE DirectConv(DirectPower(p, k - 1), p)

\* What poly_exp returns for k >= 0: the coefficients of p^k in front, zeros
\* behind them.
PolyExpIsPaddedPower ==
    (op = "poly_exp" /\ arg.k >= 0) =>
        LET q == DirectPower(arg.a, arg.k)
        IN  /\ out.err = "none"
            /\ Len(out.val) >= Len(q)
            /\ SubSeq(out.val, 1, Len(q)) = q
            /\ \A i \in (Len(q) + 1)..Len(out.val) : out.val[i] = 0

\* The round trip is the identity from length 2 on.
RoundTripFromLengthTwo ==
    (op = "roundtrip" /\ Len(arg.a) >= 2) => out = Ok(arg.a)

\* C8: power(p, k) with k < 0 is reported as an error and returns no
\* polynomial.
C8_NegativeExponentRaises ==
    (op = "poly_exp" /\ arg.k < 0) => out.err # "none"

----------------------------------------------------------------------------
(* Claims about bit_rev_copy, under SpecBitRev *)

\* C10: for a list of length n = 2^m, m >= 1, the counter of bit_rev_copy
\* stays in 0..n-1, holds rev_m(i) when position i is about to be copied and
\* is back at 0 after the n-th increment, no increment raises, and the list
\* returned is the permutation A[rev_m(i)] = a[i].
C10_BitReversalPermutation ==
    LET n == Len(bra)
        m == bit_length(n) - 1
    IN  m >= 1 =>
          /\ brpc \in {"loop", "done"}
          /\ brc \in 0..(n - 1)
          /\ brc = (IF bri < n THEN Rev(bri, m) ELSE 0)
          /\ {Rev(i, m) : i \in 0..(n - 1)} = 0..(n - 1)
          /\ \A i \in 0..(bri - 1) : brA[Rev(i, m) + 1] = bra[i + 1]
          /\ brpc = "done" => bri = n

C10_Witness ==
    /\ brpc = "done" /\ Len(bra) = Pow2(MaxLgB)
    /\ bra[1] # bra[2]
    /\ brA[2] = bra[Pow2(MaxLgB - 1) + 1]

----------------------------------------------------------------------------
(* Claims about RandomVariable, under SpecRV *)

\* C4: construction fails whenever the support is not strictly increasing,
\* so every instance has a strictly increasing X and an index map D that is
\* a bijection between the support values and the positions 0..|X|-1.
C4_StrictSupportEnforced ==
    /\ (rop = "construct" /\ ~StrictlyIncreasing(rarg.X)) => rout.err # "none"
    /\ live =>
         /\ StrictlyIncreasing(rv.X)
         /\ DOMAIN rv.D = SeqRange(rv.X)
         /\ {rv.D[x] : x \in DOMAIN rv.D} = 0..(Len(rv.X) - 1)

\* C5: construction fails whenever X and p differ in length or X is empty;
\* no instance has len(X) # len(p).
C5_LengthsEnforced ==
    /\ (rop = "construct" /\ (Len(rarg.X) # Len(rarg.p) \/ rarg.X = <<>>)) =>
         rout.err # "none"
    /\ live => Len(rv.X) = Len(rv.p)

\* C6: on every instance and for every query value u, cmf(u) is P(X <= u);
\* it is 0 below min(X) and the total mass at X[last].
C6_CmfIsMassUpTo ==
    (rop = "cmf") =>
        /\ rout.err = "none"
        /\ rout.val = MassUpTo(rv, rarg.u)
        /\ (rv.X # <<>> /\ rarg.u < rv.X[1]) => rout.val = 0
        /\ (rv.X # <<>> /\ rarg.u = rv.X[Len(rv.X)]) => rout.val = SumSeq(rv.p)

\* cmf on the instances the data model describes.
CmfOnWellFormed ==
    (rop = "cmf" /\ WellFormed(rv)) =>
        /\ rout.err = "none"
        /\ rout.val = MassUpTo(rv, rarg.u)
        /\ (rv.X # <<>> /\ rarg.u < rv.X[1]) => rout.val = 0
        /\ (rv.X # <<>> /\ rarg.u = rv.X[Len(rv.X)]) => rout.val = SumSeq(rv.p)

\* C7: on every instance and for every f, transform(f) succeeds and returns
\* an instance over the ascending distinct images, each carrying the summed
\* mass of its preimages, so that the total mass is kept.
C7_TransformGroupsMass ==
    (rop = "transform") =>
        /\ rout.err = "none"
        /\ rout.val.X = SortedKeys(Images(rv, rarg.f))
        /\ \A i \in 1..Len(rout.val.X) :
             rout.val.p[i] = MassOnto(rv, rarg.f, rout.val.X[i])
        /\ SumSeq(rout.val.p) = SumSeq(rv.p)

\* transform on the instances the data model describes.
TransformOnWellFormed ==
    (rop = "transform" /\ WellFormed(rv)) =>
        /\ rout.err = "none"
        /\ rout.val.X = SortedKeys(Images(rv, rarg.f))
        /\ \A i \in 1..Len(rout.val.X) :
             rout.val.p[i] = MassOnto(rv, rarg.f, rout.val.X[i])
        /\ SumSeq(rout.val.p) = SumSeq(rv.p)

\* C9 as stated: the instance map(f) returns keeps the support and has the
\* probability vector [f(p[0]), ..., f(p[n-1])].
C9_MapAppliesToProbabilities ==
    (rop = "map" /\ rout.err = "none") =>
        /\ rout.val.X = rv.X
        /\ rout.val.p = [i \in 1..Len(rv.p) |-> Apply(rarg.f, rv.p[i])]

\* C9, amended: map(f) applies f to the support values.  It leaves the
\* receiver unchanged; it returns an instance exactly when
\* [f(X[0]), ..., f(X[n-1])] is a valid pmf, and that instance has the
\* receiver's support and this probability vector; otherwise it fails with
\* the pmf error.
C9_MapAppliesToSupport ==
    [][rop' = "map" =>
         LET q == [i \in 1..Len(rv.X) |-> Apply(rarg'.f, rv.X[i])]
             valid == (\A i \in 1..Len(q) : q[i] >= 0)
                         /\ SumSeq(q) > One - EPSILON /\ SumSeq(q) < One + EPSILON
         IN  /\ rv' = rv /\ live' = live
             /\ valid => (rout'.err = "none" /\ rout'.val.X = rv.X /\ rout'.val.p = q)
             /\ ~valid => rout'.err = PmfError]_vars

C9_Witness ==
    /\ rop = "map" /\ rout.err = "none" /\ WellFormed(rv) /\ Len(rv.X) >= 2
    /\ rout.val.p # [i \in 1..Len(rv.p) |-> Apply(rarg.f, rv.p[i])]

====
